---- MODULE Spec2Model ----
(***************************************************************************)
(* Compute-offload path selection: the strategies CPEG, CNE, CCN and MPCN  *)
(* of the repository, run one after the other on one generated network as  *)
(* the benchmark harness does (compare4.py, main).                         *)
(*                                                                         *)
(* Node identifiers are strings; the code builds new identifiers by        *)
(* appending "_2", "_3", "_<i>" and takes them apart with split('_'), so   *)
(* an identifier is modelled as the sequence of its pieces, the character  *)
(* "_" being a piece of its own: "a_3" is <<"a", "_", "3">>.               *)
(*                                                                         *)
(* Delays are rationals in the code (Python floats).  Here every delay,   *)
(* and every delay attribute of an edge, is held as the integer            *)
(* Unit * delay: 0.1 is Unit \div 10.  Unit is chosen so that each         *)
(* division the code makes on the inputs of Init is exact in the model.    *)
(***************************************************************************)
EXTENDS Integers, Sequences, FiniteSets, TLC

VARIABLES
    original_nodes,      \* list of node identifiers
    original_edges,      \* list of [u, v, d]: d the edge's attribute dictionary
    compute_nodes,       \* list of compute-capable nodes
    compute_capacities,  \* insertion-ordered dict: list of <<node, capacity>>
    source_node,
    destination_node,
    flow_size,
    gamma,
    omega,
    pc,                  \* the harness's position: which script runs next
    cpeg,                \* outcome of "CPEG algorithm.py"
    cne,                 \* outcome of "CNE_algorithm.py"
    ccn,                 \* outcome of CCN.find_closest_compute_node
    mpcn,                \* outcome of MPCN.find_max_capacity_compute_node
    request              \* (num_nodes, num_edges) the dataset generator was called with

inputs == <<original_nodes, original_edges, compute_nodes, compute_capacities,
            source_node, destination_node, flow_size, gamma, omega>>
vars == <<original_nodes, original_edges, compute_nodes, compute_capacities,
          source_node, destination_node, flow_size, gamma, omega,
          pc, cpeg, cne, ccn, mpcn, request>>

-----------------------------------------------------------------------------
(* Bounds and input domains                                                *)

MaxEdges == 4

Bandwidths == {1, 2}
Capacities == {1, 2}

\* the number of model units in one unit of delay
Unit == 100

NodeS == <<"s">>
NodeD == <<"d">>
NodeA == <<"a">>
NodeB == <<"b">>
NodeA3 == <<"a", "_", "3">>
NodeA1 == <<"a", "_", "1">>


\* the candidate links over the four nodes, in the order the edge list keeps
Links(n4) ==
    << <<NodeS, NodeA>>, <<NodeS, n4>>, <<NodeS, NodeD>>,
       <<NodeA, n4>>, <<n4, NodeA>>, <<NodeA, NodeD>>, <<n4, NodeD>>,
       <<NodeD, NodeA>>, <<NodeD, n4>>, <<NodeA, NodeS>>, <<n4, NodeS>> >>

\* two attribute dictionaries an edge may carry
Fast == [bandwidth |-> 2, propagation_delay |-> 1 * Unit, processing_delay |-> 0,
         queuing_delay |-> 0, jitter |-> 0]
Slow == [bandwidth |-> 1, propagation_delay |-> 0, processing_delay |-> 2 * Unit,
         queuing_delay |-> 1 * Unit, jitter |-> 1 * Unit]

\* attribute tables: every link fast, or the direct links source -> a and
\* a -> destination slow and the others fast
Tables == {"fast", "mixed"}
Attrs(table, l) ==
    IF table = "mixed" /\ l \in {<<NodeS, NodeA>>, <<NodeA, NodeD>>}
    THEN Slow ELSE Fast

\* (flow_size, gamma, omega) of a flow request
Flows == {<<1, 2, 1>>, <<2, 1, 2>>}

-----------------------------------------------------------------------------
(* Helpers on lists                                                        *)

Range(s) == {s[i] : i \in 1..Len(s)}

RECURSIVE SumSeq(_)
SumSeq(s) == IF s = <<>> THEN 0 ELSE Head(s) + SumSeq(Tail(s))

Min(S) == CHOOSE x \in S : \A y \in S : x <= y

-----------------------------------------------------------------------------
(* Python values: dictionaries and strings                                 *)

\* an insertion-ordered dict is the list of its items <<key, value>>
DictKeys(dct) == {dct[i][1] : i \in 1..Len(dct)}
DictItem(dct, k) == dct[CHOOSE i \in 1..Len(dct) : dct[i][1] = k][2]
\* dct.get(k, default)
DictGet(dct, k, default) == IF k \in DictKeys(dct) THEN DictItem(dct, k) ELSE default

\* f"{node}_{tag}"
Suffixed(node, tag) == node \o <<"_", tag>>

\* s.split('_')[0]: what precedes the first "_"
RECURSIVE SplitFirst(_)
SplitFirst(s) == IF s = <<>> \/ Head(s) = "_" THEN <<>>
                 ELSE <<Head(s)>> \o SplitFirst(Tail(s))

\* str(i) for the replica numbers the code formats
Digit(i) == CASE i = 1 -> "1" [] i = 2 -> "2" [] i = 3 -> "3" [] i = 4 -> "4"
              [] OTHER -> "9"

\* the value carried by an expanded edge: an attribute dictionary or a number
AsDict(r) == [isdict |-> TRUE, get |-> r]
AsNumber(x) == [isdict |-> FALSE, get |-> x]

-----------------------------------------------------------------------------
(* networkx: DiGraph and the shortest-path contract                        *)

\* G = nx.DiGraph(); G.add_nodes_from(nodes); then one add_edge per element
\* of edges: a later edge between the same pair replaces the earlier one
DiGraph(nodes, edges) ==
    LET pairs == {<<edges[i].u, edges[i].v>> : i \in 1..Len(edges)}
        last(p) == CHOOSE i \in 1..Len(edges) :
                      /\ <<edges[i].u, edges[i].v>> = p
                      /\ \A j \in (i+1)..Len(edges) : <<edges[j].u, edges[j].v>> # p
    IN [nodes |-> Range(nodes) \cup {p[1] : p \in pairs} \cup {p[2] : p \in pairs},
        adj |-> [p \in pairs |-> edges[last(p)].d]]

Succ(G, u) == {p[2] : p \in {q \in DOMAIN G.adj : q[1] = u}}

\* the simple paths of G from u to t that avoid the nodes in seen
RECURSIVE SimplePaths(_, _, _, _)
SimplePaths(G, u, t, seen) ==
    IF u = t THEN {<<u>>}
    ELSE UNION {{<<u>> \o p : p \in SimplePaths(G, v, t, seen \cup {v})} :
                v \in Succ(G, u) \ seen}

\* an edge weight is a function W from the edges (u, v) of G to numbers;
\* the sum of W over the consecutive pairs of path
PathWeight(W, path) ==
    SumSeq([i \in 1..(Len(path) - 1) |-> W[<<path[i], path[i+1]>>]])

\* the minimum-weight paths from s to t: the library returns one of them
ShortestPaths(G, W, s, t) ==
    LET all == SimplePaths(G, s, t, {s})
        best == Min({PathWeight(W, p) : p \in all})
    IN {p \in all : PathWeight(W, p) = best}

\* nx.shortest_path(G, s, t, weight=W): NodeNotFound when s or t is not a
\* node of G, NetworkXNoPath when t cannot be reached
shortest_path(G, W, s, t) ==
    IF s \notin G.nodes \/ t \notin G.nodes
    THEN [exc |-> "NodeNotFound", paths |-> {}]
    ELSE IF SimplePaths(G, s, t, {s}) = {}
    THEN [exc |-> "NetworkXNoPath", paths |-> {}]
    ELSE [exc |-> "", paths |-> ShortestPaths(G, W, s, t)]

NegativeWeight(W) == \E p \in DOMAIN W : W[p] < 0

\* nx.dijkstra_path(G, s, t, weight='weight'), as the set of its outcomes
\* [exc, path]: NodeNotFound when s is not a node of G, NetworkXNoPath when
\* t is not reached (t not in G included), else one of the minimum-weight
\* paths.  With a negative weight the search is outside its contract: it
\* raises ValueError ("Contradictory paths found") when it meets a settled
\* node again at a smaller distance, and otherwise returns the path it
\* settled on, which need not be a shortest one.
dijkstra_path(G, W, s, t) ==
    LET all == IF t \in G.nodes THEN SimplePaths(G, s, t, {s}) ELSE {}
        failed(exc) == [exc |-> exc, path |-> <<>>]
    IN IF s \notin G.nodes THEN {failed("NodeNotFound")}
       ELSE IF NegativeWeight(W)
       THEN {failed("ValueError")}
            \cup (IF all = {} THEN {failed("NetworkXNoPath")} ELSE {})
            \cup {[exc |-> "", path |-> p] : p \in all}
       ELSE IF all = {} THEN {failed("NetworkXNoPath")}
       ELSE {[exc |-> "", path |-> p] : p \in ShortestPaths(G, W, s, t)}

-----------------------------------------------------------------------------
(* CPEG.py: the three-layer expansion                                      *)

\* the edges (u, v, weight, layer) a loop over original_edges appends
\* UCL_edges without the test on the destination: every edge is kept
RECURSIVE UCL_edges_KeepDestination(_, _)
UCL_edges_KeepDestination(edges, Dest_node) ==
    IF edges = <<>> THEN <<>>
    ELSE LET e == Head(edges) IN
         <<[u |-> e.u, v |-> e.v, d |-> AsDict(e.d), layer |-> "C-UCL"]>>
         \o UCL_edges_KeepDestination(Tail(edges), Dest_node)

RECURSIVE UCL_edges(_, _)
UCL_edges(edges, Dest_node) ==
    IF edges = <<>> THEN <<>>
    ELSE LET e == Head(edges) IN
         (IF e.v # Dest_node
          THEN <<[u |-> e.u, v |-> e.v, d |-> AsDict(e.d), layer |-> "C-UCL"]>>
          ELSE <<>>) \o UCL_edges(Tail(edges), Dest_node)

\* layer D keeping the edges at source
RECURSIVE DCL_edges_KeepSource(_, _)
DCL_edges_KeepSource(edges, Source_node) ==
    IF edges = <<>> THEN <<>>
    ELSE LET e == Head(edges) IN
         <<[u |-> Suffixed(e.u, "3"), v |-> Suffixed(e.v, "3"),
            d |-> AsDict(e.d), layer |-> "C-DCL"]>>
         \o DCL_edges_KeepSource(Tail(edges), Source_node)

RECURSIVE DCL_edges(_, _)
DCL_edges(edges, Source_node) ==
    IF edges = <<>> THEN <<>>
    ELSE LET e == Head(edges) IN
         (IF e.u # Source_node /\ e.v # Source_node
          THEN <<[u |-> Suffixed(e.u, "3"), v |-> Suffixed(e.v, "3"),
                  d |-> AsDict(e.d), layer |-> "C-DCL"]>>
          ELSE <<>>) \o DCL_edges(Tail(edges), Source_node)

UCL_CL_edges(cnodes, capacities) ==
    [i \in 1..Len(cnodes) |->
        [u |-> cnodes[i], v |-> Suffixed(cnodes[i], "2"),
         d |-> AsDict([capacity |-> DictItem(capacities, cnodes[i])]),
         layer |-> "UCL-CL"]]

\* the link into layer D left out for the last compute node
CL_DCL_edges_SkipsLast(cnodes) ==
    [i \in 1..(Len(cnodes) - 1) |->
        [u |-> Suffixed(cnodes[i], "2"), v |-> Suffixed(cnodes[i], "3"),
         d |-> AsNumber(0), layer |-> "CL-DCL"]]

CL_DCL_edges(cnodes) ==
    [i \in 1..Len(cnodes) |->
        [u |-> Suffixed(cnodes[i], "2"), v |-> Suffixed(cnodes[i], "3"),
         d |-> AsNumber(0), layer |-> "CL-DCL"]]

\* expand_network of CPEG.py; compute_capacities[node] raises KeyError
\* for a compute node that has no capacity
CPEG_expand_network(nodes, edges, cnodes, capacities, Source_node, Dest_node) ==
    IF ~(Range(cnodes) \subseteq DictKeys(capacities))
    THEN [exc |-> "KeyError", V |-> <<>>, E |-> <<>>]
    ELSE LET V_C_UCL == nodes
             V_C_CL == [i \in 1..Len(cnodes) |-> Suffixed(cnodes[i], "2")]
             V_C_DCL == LET keep(n) == n # Source_node
                            kept == SelectSeq(nodes, keep)
                        IN [i \in 1..Len(kept) |-> Suffixed(kept[i], "3")]
         IN [exc |-> "",
             V |-> V_C_UCL \o V_C_CL \o V_C_DCL,
             E |-> UCL_edges(edges, Dest_node)
                   \o UCL_CL_edges(cnodes, capacities)
                   \o CL_DCL_edges(cnodes)
                   \o DCL_edges(edges, Source_node)]

-----------------------------------------------------------------------------
(* "CPEG algorithm.py" (kept in CNE.py): weights and search                *)

NonTransmission(d) ==
    d.propagation_delay + d.processing_delay + d.queuing_delay + d.jitter

\* d_uv with the same transmission term in both layers (gamma forgotten)
d_uv_NoGamma(u, v, layer, edge_data) ==
    IF ~edge_data.isdict THEN 0
    ELSE CASE layer \in {"C-UCL", "C-DCL"} ->
                (Unit * flow_size) \div edge_data.get.bandwidth
                + NonTransmission(edge_data.get)
           [] layer = "UCL-CL" ->
                (Unit * omega * flow_size)
                   \div DictGet(compute_capacities, SplitFirst(v), 1)
           [] OTHER -> 0

\* d_uv with the amplified transmission term in both layers
d_uv_GammaUpstream(u, v, layer, edge_data) ==
    IF ~edge_data.isdict THEN 0
    ELSE CASE layer \in {"C-UCL", "C-DCL"} ->
                (Unit * gamma * flow_size) \div edge_data.get.bandwidth
                + NonTransmission(edge_data.get)
           [] layer = "UCL-CL" ->
                (Unit * omega * flow_size)
                   \div DictGet(compute_capacities, SplitFirst(v), 1)
           [] OTHER -> 0

\* d_uv with the jitter left out of the downstream layer
d_uv_NoJitterDownstream(u, v, layer, edge_data) ==
    IF ~edge_data.isdict THEN 0
    ELSE CASE layer = "C-UCL" ->
                (Unit * flow_size) \div edge_data.get.bandwidth
                + NonTransmission(edge_data.get)
           [] layer = "C-DCL" ->
                (Unit * gamma * flow_size) \div edge_data.get.bandwidth
                + NonTransmission(edge_data.get) - edge_data.get.jitter
           [] layer = "UCL-CL" ->
                (Unit * omega * flow_size)
                   \div DictGet(compute_capacities, SplitFirst(v), 1)
           [] OTHER -> 0

\* d_uv looking the capacity up under v itself, the suffixed identifier,
\* which the capacities never hold: the default capacity 1 is used
d_uv_LookupSuffixed(u, v, layer, edge_data) ==
    IF ~edge_data.isdict THEN 0
    ELSE CASE layer = "C-UCL" ->
                (Unit * flow_size) \div edge_data.get.bandwidth
                + NonTransmission(edge_data.get)
           [] layer = "C-DCL" ->
                (Unit * gamma * flow_size) \div edge_data.get.bandwidth
                + NonTransmission(edge_data.get)
           [] layer = "UCL-CL" ->
                (Unit * omega * flow_size) \div DictGet(compute_capacities, v, 1)
           [] OTHER -> 0

\* d_uv: the weight of an expanded edge; reads the module-level flow_size,
\* gamma, omega and compute_capacities
d_uv(u, v, layer, edge_data) ==
    IF ~edge_data.isdict THEN 0
    ELSE CASE layer = "C-UCL" ->
                (Unit * flow_size) \div edge_data.get.bandwidth
                + NonTransmission(edge_data.get)
           [] layer = "C-DCL" ->
                (Unit * gamma * flow_size) \div edge_data.get.bandwidth
                + NonTransmission(edge_data.get)
           [] layer = "UCL-CL" ->
                LET compute_node == SplitFirst(v)
                    compute_capacity == DictGet(compute_capacities, compute_node, 1)
                IN (Unit * omega * flow_size) \div compute_capacity
           [] layer = "CL-DCL" -> 0
           [] OTHER -> 0

\* d_uv divides by a capacity of 0: Python raises ZeroDivisionError
d_uv_ZeroDivision(u, v, layer, edge_data) ==
    /\ edge_data.isdict
    /\ layer = "UCL-CL"
    /\ DictGet(compute_capacities, SplitFirst(v), 1) = 0

\* for u, v, edge_data, layer in E: G.add_edge(u, v, weight=d_uv(...), layer=layer)
WeightedGraph(E) ==
    DiGraph(<<>>, [i \in 1..Len(E) |->
        [u |-> E[i].u, v |-> E[i].v,
         d |-> [weight |-> d_uv(E[i].u, E[i].v, E[i].layer, E[i].d),
                layer |-> E[i].layer]]])

\* weight='weight'
WeightAttr(G) == [p \in DOMAIN G.adj |-> G.adj[p].weight]

\* what one script or function call leaves: status "ok" with the outputs,
\* "nopath" for the returned triple (None, inf, []), "error" for an
\* exception that ends the call, exc naming it
Idle == [status |-> "idle", exc |-> "", node |-> <<>>, total_delay |-> 0, path |-> <<>>]
Ok(node, delay, path) ==
    [status |-> "ok", exc |-> "", node |-> node, total_delay |-> delay, path |-> path]
NoPathResult ==
    [status |-> "nopath", exc |-> "", node |-> <<>>, total_delay |-> 0, path |-> <<>>]
Raised(exc) ==
    [status |-> "error", exc |-> exc, node |-> <<>>, total_delay |-> 0, path |-> <<>>]

\* the script from the expansion to the printed END_TO_END_DELAY; it names
\* no compute node, and nothing catches what dijkstra_path raises
CPEG_outcomes ==
    LET X == CPEG_expand_network(original_nodes, original_edges, compute_nodes,
                                 compute_capacities, source_node, destination_node)
        G == WeightedGraph(X.E)
        dest_node_dcl == destination_node \o <<"_", "3">>
        R == dijkstra_path(G, WeightAttr(G), source_node, dest_node_dcl)
    IN IF X.exc # "" THEN {Raised(X.exc)}
       ELSE IF \E i \in 1..Len(X.E) :
                  d_uv_ZeroDivision(X.E[i].u, X.E[i].v, X.E[i].layer, X.E[i].d)
       THEN {Raised("ZeroDivisionError")}
       ELSE {IF r.exc # "" THEN Raised(r.exc)
             ELSE Ok(<<>>, PathWeight(WeightAttr(G), r.path), r.path) : r \in R}

-----------------------------------------------------------------------------
(* CNE.py: one replica of the network per compute node                     *)

\* Copied_edges without the test on the source: every edge is copied
RECURSIVE Copied_edges_KeepSource(_, _, _)
Copied_edges_KeepSource(edges, Source_node, i) ==
    IF edges = <<>> THEN <<>>
    ELSE LET e == Head(edges) IN
         <<[u |-> Suffixed(e.u, Digit(i)), v |-> Suffixed(e.v, Digit(i)),
            d |-> AsDict(e.d), layer |-> "copied"]>>
         \o Copied_edges_KeepSource(Tail(edges), Source_node, i)

RECURSIVE Copied_edges(_, _, _)
Copied_edges(edges, Source_node, i) ==
    IF edges = <<>> THEN <<>>
    ELSE LET e == Head(edges) IN
         (IF e.u # Source_node /\ e.v # Source_node
          THEN <<[u |-> Suffixed(e.u, Digit(i)), v |-> Suffixed(e.v, Digit(i)),
                  d |-> AsDict(e.d), layer |-> "copied"]>>
          ELSE <<>>) \o Copied_edges(Tail(edges), Source_node, i)

\* the nodes and the edges the loop "for i in range(1, num_copies + 1)"
\* appends from copy i on
RECURSIVE Copies(_, _, _, _, _)
Copies(nodes, edges, Source_node, i, num_copies) ==
    IF i > num_copies THEN [V |-> <<>>, E |-> <<>>]
    ELSE LET keep(n) == n # Source_node
             kept == SelectSeq(nodes, keep)
             rest == Copies(nodes, edges, Source_node, i + 1, num_copies)
         IN [V |-> [j \in 1..Len(kept) |-> Suffixed(kept[j], Digit(i))] \o rest.V,
             E |-> Copied_edges(edges, Source_node, i) \o rest.E]

CNE_expand_network(nodes, edges, cnodes, capacities, Source_node, Dest_node) ==
    IF ~(Range(cnodes) \subseteq DictKeys(capacities))
    THEN [exc |-> "KeyError", V |-> <<>>, E |-> <<>>, super_dest |-> <<>>]
    ELSE LET num_copies == Len(cnodes)
             C == Copies(nodes, edges, Source_node, 1, num_copies)
             super_dest == Dest_node \o <<"_", "Super", "_", "Dest">>
         IN [exc |-> "",
             V |-> nodes \o C.V \o <<super_dest>>,
             E |-> [i \in 1..Len(edges) |->
                       [u |-> edges[i].u, v |-> edges[i].v,
                        d |-> AsDict(edges[i].d), layer |-> "original"]]
                   \o C.E
                   \o [i \in 1..num_copies |->
                       [u |-> cnodes[i], v |-> Suffixed(cnodes[i], Digit(i)),
                        d |-> AsDict([capacity |-> DictItem(capacities, cnodes[i])]),
                        layer |-> "compute"]]
                   \o [i \in 1..num_copies |->
                       [u |-> Suffixed(Dest_node, Digit(i)), v |-> super_dest,
                        d |-> AsNumber(0), layer |-> "aggregate"]],
             super_dest |-> super_dest]

-----------------------------------------------------------------------------
(* "CNE_algorithm.py": the search over the CNE expansion.  The script is   *)
(* not among the sources; it is modelled from the design's description of  *)
(* the replica expansion and of the result every strategy returns.         *)

\* original-layer edges weigh the forward delay, replica edges the return
\* delay, a compute edge the compute delay of its capacity, the rest 0
CNE_d_uv(u, v, layer, edge_data) ==
    IF ~edge_data.isdict THEN 0
    ELSE CASE layer = "original" ->
                (Unit * flow_size) \div edge_data.get.bandwidth
                + NonTransmission(edge_data.get)
           [] layer = "copied" ->
                (Unit * gamma * flow_size) \div edge_data.get.bandwidth
                + NonTransmission(edge_data.get)
           [] layer = "compute" ->
                (Unit * omega * flow_size) \div edge_data.get.capacity
           [] OTHER -> 0

CNE_WeightedGraph(E) ==
    DiGraph(<<>>, [i \in 1..Len(E) |->
        [u |-> E[i].u, v |-> E[i].v,
         d |-> [weight |-> CNE_d_uv(E[i].u, E[i].v, E[i].layer, E[i].d),
                layer |-> E[i].layer]]])

\* identifier without its last "_<tag>"
Unsuffixed(n) == SubSeq(n, 1, Len(n) - 2)

\* the original-node walk of a path source .. c, c_i .. dest_i, super_dest
CNE_unexpand(G, path) ==
    LET k == CHOOSE i \in 1..(Len(path) - 1) :
                 G.adj[<<path[i], path[i+1]>>].layer = "compute"
    IN [node |-> path[k],
        path |-> SubSeq(path, 1, k)
                 \o [j \in 1..(Len(path) - k - 2) |-> Unsuffixed(path[k + 1 + j])]]

CNE_outcomes ==
    LET X == CNE_expand_network(original_nodes, original_edges, compute_nodes,
                                compute_capacities, source_node, destination_node)
        G == CNE_WeightedGraph(X.E)
        R == dijkstra_path(G, WeightAttr(G), source_node, X.super_dest)
    IN IF X.exc # "" THEN {Raised(X.exc)}
       \* a capacity that is not positive fails when the compute delay is
       \* evaluated, before any search
       ELSE IF \E i \in 1..Len(X.E) :
                  /\ X.E[i].layer = "compute"
                  /\ X.E[i].d.get.capacity <= 0
       THEN {Raised("InvalidCapacity")}
       ELSE {IF r.exc # "" THEN NoPathResult
             \* a path that crosses no compute edge names no compute node
             ELSE IF \A i \in 1..(Len(r.path) - 1) :
                        G.adj[<<r.path[i], r.path[i+1]>>].layer # "compute"
             THEN Raised("NoComputeNode")
             ELSE Ok(CNE_unexpand(G, r.path).node, PathWeight(WeightAttr(G), r.path),
                     CNE_unexpand(G, r.path).path) : r \in R}

-----------------------------------------------------------------------------
(* CCN.py and MPCN.py: the greedy selectors on the original graph          *)

\* main(): G = nx.DiGraph(); G.add_nodes_from(nodes); G.add_edges_from(edges)
OriginalGraph == DiGraph(original_nodes, original_edges)

\* closeness counted in links: every edge weighs one unit
PropagationWeight_Hops(G) == [p \in DOMAIN G.adj |-> Unit]

\* weight='propagation_delay'
PropagationWeight(G) == [p \in DOMAIN G.adj |-> G.adj[p].propagation_delay]

\* the forward delay with the queuing delay left out
CCN_forward_delay_NoQueuing(d, fsize) ==
    d.propagation_delay + (Unit * fsize) \div d.bandwidth
    + d.processing_delay + d.jitter

\* CCN.py: the five forward terms of one edge of the path to the node
CCN_forward_delay(d, fsize) ==
    d.propagation_delay + (Unit * fsize) \div d.bandwidth
    + d.processing_delay + d.queuing_delay + d.jitter

\* CCN.py: the return delay of one edge of the path to the destination
CCN_return_delay(d, fsize, ga) ==
    d.propagation_delay + d.processing_delay + d.queuing_delay
    + (Unit * ga * fsize) \div d.bandwidth + d.jitter

\* find_closest_compute_node without its test "if not valid_compute_nodes":
\* valid_compute_nodes[0] of an empty list raises IndexError
find_closest_compute_node_NoEmptyTest(G, src, dst, cnodes, capacities, fsize, om, ga) ==
    LET to_compute(c) == shortest_path(G, PropagationWeight(G), src, c)
        to_dest(c) == shortest_path(G, PropagationWeight(G), c, dst)
        \* the except clause catches NetworkXNoPath alone
        escapes(c) == \/ to_compute(c).exc = "NodeNotFound"
                      \/ to_compute(c).exc = "" /\ to_dest(c).exc = "NodeNotFound"
        valid(c) == to_compute(c).exc = "" /\ to_dest(c).exc = ""
        \* propagation delay of the path found to c
        delay_to_compute(c) ==
            PathWeight(PropagationWeight(G), CHOOSE p \in to_compute(c).paths : TRUE)
        valid_compute_nodes == SelectSeq(cnodes, valid)
        \* list.sort is stable: the first of the smallest keys comes first
        first == CHOOSE i \in 1..Len(valid_compute_nodes) :
                   /\ \A j \in 1..Len(valid_compute_nodes) :
                         delay_to_compute(valid_compute_nodes[i])
                            <= delay_to_compute(valid_compute_nodes[j])
                   /\ \A j \in 1..(i - 1) :
                         delay_to_compute(valid_compute_nodes[j])
                            > delay_to_compute(valid_compute_nodes[i])
        closest_node == valid_compute_nodes[first]
        Forward == [p \in DOMAIN G.adj |-> CCN_forward_delay(G.adj[p], fsize)]
        Return == [p \in DOMAIN G.adj |-> CCN_return_delay(G.adj[p], fsize, ga)]
    IN IF \E i \in 1..Len(cnodes) : escapes(cnodes[i]) THEN {Raised("NodeNotFound")}
       ELSE IF valid_compute_nodes = <<>> THEN {Raised("IndexError")}
       ELSE IF closest_node \notin DictKeys(capacities) THEN {Raised("KeyError")}
       ELSE IF DictItem(capacities, closest_node) = 0 THEN {Raised("ZeroDivisionError")}
       ELSE {Ok(closest_node,
                PathWeight(Forward, shortest_path_)
                  + PathWeight(Return, path_compute_to_destination)
                  + (Unit * om * fsize) \div DictItem(capacities, closest_node),
                SubSeq(shortest_path_, 1, Len(shortest_path_) - 1)
                  \o path_compute_to_destination) :
               shortest_path_ \in to_compute(closest_node).paths,
               path_compute_to_destination \in to_dest(closest_node).paths}

\* find_closest_compute_node of CCN.py: the set of results it can return,
\* one for each pair of equal-weight paths the library may hand back
find_closest_compute_node(G, src, dst, cnodes, capacities, fsize, om, ga) ==
    LET to_compute(c) == shortest_path(G, PropagationWeight(G), src, c)
        to_dest(c) == shortest_path(G, PropagationWeight(G), c, dst)
        \* the except clause catches NetworkXNoPath alone
        escapes(c) == \/ to_compute(c).exc = "NodeNotFound"
                      \/ to_compute(c).exc = "" /\ to_dest(c).exc = "NodeNotFound"
        valid(c) == to_compute(c).exc = "" /\ to_dest(c).exc = ""
        \* propagation delay of the path found to c
        delay_to_compute(c) ==
            PathWeight(PropagationWeight(G), CHOOSE p \in to_compute(c).paths : TRUE)
        valid_compute_nodes == SelectSeq(cnodes, valid)
        \* list.sort is stable: the first of the smallest keys comes first
        first == CHOOSE i \in 1..Len(valid_compute_nodes) :
                   /\ \A j \in 1..Len(valid_compute_nodes) :
                         delay_to_compute(valid_compute_nodes[i])
                            <= delay_to_compute(valid_compute_nodes[j])
                   /\ \A j \in 1..(i - 1) :
                         delay_to_compute(valid_compute_nodes[j])
                            > delay_to_compute(valid_compute_nodes[i])
        closest_node == valid_compute_nodes[first]
        Forward == [p \in DOMAIN G.adj |-> CCN_forward_delay(G.adj[p], fsize)]
        Return == [p \in DOMAIN G.adj |-> CCN_return_delay(G.adj[p], fsize, ga)]
    IN IF \E i \in 1..Len(cnodes) : escapes(cnodes[i]) THEN {Raised("NodeNotFound")}
       ELSE IF valid_compute_nodes = <<>> THEN {NoPathResult}
       ELSE IF closest_node \notin DictKeys(capacities) THEN {Raised("KeyError")}
       ELSE IF DictItem(capacities, closest_node) = 0 THEN {Raised("ZeroDivisionError")}
       ELSE {Ok(closest_node,
                PathWeight(Forward, shortest_path_)
                  + PathWeight(Return, path_compute_to_destination)
                  + (Unit * om * fsize) \div DictItem(capacities, closest_node),
                SubSeq(shortest_path_, 1, Len(shortest_path_) - 1)
                  \o path_compute_to_destination) :
               shortest_path_ \in to_compute(closest_node).paths,
               path_compute_to_destination \in to_dest(closest_node).paths}

\* the last item that carries the largest value
MaxCapacityNode_Last(capacities) ==
    LET i == CHOOSE k \in 1..Len(capacities) :
               /\ \A j \in 1..Len(capacities) : capacities[j][2] <= capacities[k][2]
               /\ \A j \in (k + 1)..Len(capacities) : capacities[j][2] < capacities[k][2]
    IN capacities[i][1]

\* min in place of max: the first item that carries the smallest value
MaxCapacityNode_Smallest(capacities) ==
    LET i == CHOOSE k \in 1..Len(capacities) :
               /\ \A j \in 1..Len(capacities) : capacities[j][2] >= capacities[k][2]
               /\ \A j \in 1..(k - 1) : capacities[j][2] > capacities[k][2]
    IN capacities[i][1]

\* max(compute_capacities.items(), key=lambda x: x[1])[0]: the first item
\* that carries the largest value
MaxCapacityNode(capacities) ==
    LET i == CHOOSE k \in 1..Len(capacities) :
               /\ \A j \in 1..Len(capacities) : capacities[j][2] <= capacities[k][2]
               /\ \A j \in 1..(k - 1) : capacities[j][2] < capacities[k][2]
    IN capacities[i][1]

\* MPCN.py: the weight lambda of the search from source to the node
MPCN_forward_weight(d, fsize) ==
    d.propagation_delay + d.processing_delay + d.queuing_delay
    + (Unit * fsize) \div d.bandwidth + d.jitter

\* the return weight with the request's transmission term (gamma forgotten)
MPCN_return_weight_NoGamma(d, fsize, ga) ==
    d.propagation_delay + d.processing_delay + d.queuing_delay
    + (Unit * fsize) \div d.bandwidth + d.jitter

\* MPCN.py: the weight lambda of the search from the node to destination
MPCN_return_weight(d, fsize, ga) ==
    d.propagation_delay + d.processing_delay + d.queuing_delay
    + (Unit * ga * fsize) \div d.bandwidth + d.jitter

\* find_max_capacity_compute_node of MPCN.py
find_max_capacity_compute_node(G, src, dst, cnodes, capacities, fsize, om, ga) ==
    LET max_capacity_node == MaxCapacityNode(capacities)
        Forward == [p \in DOMAIN G.adj |-> MPCN_forward_weight(G.adj[p], fsize)]
        Return == [p \in DOMAIN G.adj |-> MPCN_return_weight(G.adj[p], fsize, ga)]
        to_compute == shortest_path(G, Forward, src, max_capacity_node)
        to_dest == shortest_path(G, Return, max_capacity_node, dst)
    IN \* max() of an empty sequence raises ValueError, outside the try
       IF capacities = <<>> THEN {Raised("ValueError")}
       ELSE IF to_compute.exc = "NetworkXNoPath" THEN {NoPathResult}
       ELSE IF to_compute.exc # "" THEN {Raised(to_compute.exc)}
       ELSE IF to_dest.exc = "NetworkXNoPath" THEN {NoPathResult}
       ELSE IF to_dest.exc # "" THEN {Raised(to_dest.exc)}
       ELSE IF DictItem(capacities, max_capacity_node) = 0
            THEN {Raised("ZeroDivisionError")}
       ELSE {Ok(max_capacity_node,
                PathWeight(Forward, path_to_compute)
                  + PathWeight(Return, path_to_dest)
                  + (Unit * om * fsize) \div DictItem(capacities, max_capacity_node),
                SubSeq(path_to_compute, 1, Len(path_to_compute) - 1) \o path_to_dest) :
               path_to_compute \in to_compute.paths, path_to_dest \in to_dest.paths}

-----------------------------------------------------------------------------
(* The harness: one generated network, then the four scripts in turn       *)

\* the network was not generated: it was given as a file
NoRequest == [num_nodes |-> 0, num_edges |-> 0]

\* compute_capacities as load_network_from_yaml builds it from a list:
\* {node: capacity for node, capacity in zip(compute_nodes, capacity_list)}
ZipCapacities(cnodes, capacity_list) ==
    [i \in 1..Len(cnodes) |-> <<cnodes[i], capacity_list[i]>>]

Reverse(s) == [i \in 1..Len(s) |-> s[Len(s) + 1 - i]]

ComputeLists(n4) == {<<>>, <<NodeA>>, <<n4>>, <<NodeA, n4>>, <<n4, NodeA>>}

\* the networks of at most max_edges links over source, a, a fourth node n4
\* and destination
Networks(n4, table, flow, max_edges) ==
    \E chosen \in SUBSET (1..Len(Links(n4))) :
    \E cnodes \in ComputeLists(n4) :
    \E capacity_list \in [1..Len(cnodes) -> Capacities] :
    \E reversed \in BOOLEAN :
        /\ Cardinality(chosen) <= max_edges
        /\ original_nodes = <<NodeS, NodeA, n4, NodeD>>
        /\ original_edges =
             LET picked(l) == \E i \in chosen : Links(n4)[i] = l
                 links == SelectSeq(Links(n4), picked)
             IN [i \in 1..Len(links) |->
                    [u |-> links[i][1], v |-> links[i][2], d |-> Attrs(table, links[i])]]
        /\ compute_nodes = cnodes
        \* a capacity list keeps the order of compute_nodes; a capacity
        \* dictionary keeps the order it was written in
        /\ compute_capacities = IF reversed
                                THEN Reverse(ZipCapacities(cnodes, capacity_list))
                                ELSE ZipCapacities(cnodes, capacity_list)
        /\ source_node = NodeS
        /\ destination_node = NodeD
        /\ flow_size = flow[1]
        /\ gamma = flow[2]
        /\ omega = flow[3]
        /\ pc = "CPEG"
        /\ cpeg = Idle /\ cne = Idle /\ ccn = Idle /\ mpcn = Idle
        /\ request = NoRequest

\* capacities a network must not carry
InvalidCapacities == {-1, 0}

\* networks over source, a, b and destination in which a compute node has
\* a capacity that is not positive, or none
InvalidCapacityNetworks ==
    \E chosen \in SUBSET (1..Len(Links(NodeB))) :
    \E cnodes \in {<<NodeA>>, <<NodeA, NodeB>>} :
    \E capacity_list \in [1..Len(cnodes) -> Capacities \cup InvalidCapacities] :
    \E missing \in SUBSET (1..Len(cnodes)) :
        /\ 2 * Cardinality(chosen) <= MaxEdges
        /\ \E i \in 1..Len(cnodes) :
              i \in missing \/ capacity_list[i] \in InvalidCapacities
        /\ original_nodes = <<NodeS, NodeA, NodeB, NodeD>>
        /\ original_edges =
             LET picked(l) == \E i \in chosen : Links(NodeB)[i] = l
                 links == SelectSeq(Links(NodeB), picked)
             IN [i \in 1..Len(links) |->
                    [u |-> links[i][1], v |-> links[i][2], d |-> Fast]]
        /\ compute_nodes = cnodes
        /\ compute_capacities =
             LET items == ZipCapacities(cnodes, capacity_list)
                 given(item) == \E i \in 1..Len(cnodes) \ missing : items[i] = item
             IN SelectSeq(items, given)
        /\ source_node = NodeS
        /\ destination_node = NodeD
        /\ flow_size = 1
        /\ gamma = 2
        /\ omega = 1
        /\ pc = "CPEG"
        /\ cpeg = Idle /\ cne = Idle /\ ccn = Idle /\ mpcn = Idle
        /\ request = NoRequest

\* the worked scenario of the design: nodes A, B, C, D, compute nodes B and
\* C, four equal links (propagation 1, processing 0.1)
ScenarioA == <<"A">>
ScenarioB == <<"B">>
ScenarioC == <<"C">>
ScenarioD == <<"D">>
ScenarioLink == [bandwidth |-> 1000, propagation_delay |-> 1 * Unit,
                 processing_delay |-> Unit \div 10, queuing_delay |-> 0, jitter |-> 0]
Scenario ==
    /\ original_nodes = <<ScenarioA, ScenarioB, ScenarioC, ScenarioD>>
    /\ original_edges = <<[u |-> ScenarioA, v |-> ScenarioB, d |-> ScenarioLink],
                          [u |-> ScenarioB, v |-> ScenarioD, d |-> ScenarioLink],
                          [u |-> ScenarioA, v |-> ScenarioC, d |-> ScenarioLink],
                          [u |-> ScenarioC, v |-> ScenarioD, d |-> ScenarioLink]>>
    /\ compute_nodes = <<ScenarioB, ScenarioC>>
    /\ compute_capacities = << <<ScenarioB, 10000>>, <<ScenarioC, 50000>> >>
    /\ source_node = ScenarioA
    /\ destination_node = ScenarioD
    /\ flow_size = 100
    /\ gamma = 2
    /\ omega = 10
    /\ pc = "CPEG"
    /\ cpeg = Idle /\ cne = Idle /\ ccn = Idle /\ mpcn = Idle
    /\ request = NoRequest

\* the fourth node is called "b", or "a_3" (an identifier that contains "_"
\* and is also what the expansions call a copy of node a)
Init ==
    \/ \E table \in Tables, flow \in Flows :
          /\ table = "mixed" => flow = <<1, 2, 1>>
          /\ Networks(NodeB, table, flow, MaxEdges)
    \/ Networks(NodeA3, "fast", <<1, 2, 1>>, MaxEdges - 1)
    \/ InvalidCapacityNetworks
    \/ Scenario

\* networks that differ in their links, compute nodes and identifiers only:
\* the fourth node is "b", "a_3" or "a_1" (what CNE calls the copy of node a
\* in its first replica)
ExpansionInit ==
    \E n4 \in {NodeB, NodeA3, NodeA1} :
        Networks(n4, "fast", <<1, 2, 1>>, MaxEdges - 1)

RunCPEG ==
    /\ pc = "CPEG"
    /\ cpeg' \in CPEG_outcomes
    /\ pc' = "CNE"
    /\ UNCHANGED <<inputs, cne, ccn, mpcn, request>>

RunCNE ==
    /\ pc = "CNE"
    /\ cne' \in CNE_outcomes
    /\ pc' = "CCN"
    /\ UNCHANGED <<inputs, cpeg, ccn, mpcn, request>>

\* RunCCN with an except clause that also removes the compute node it
\* could not route from the caller's compute_nodes list
RunCCN_RemovesUnroutable ==
    /\ pc = "CCN"
    /\ ccn' \in find_closest_compute_node(OriginalGraph, source_node,
                    destination_node, compute_nodes, compute_capacities,
                    flow_size, omega, gamma)
    /\ pc' = "MPCN"
    /\ compute_nodes' =
          LET G == OriginalGraph
              routable(c) ==
                  /\ shortest_path(G, PropagationWeight(G), source_node, c).exc = ""
                  /\ shortest_path(G, PropagationWeight(G), c, destination_node).exc = ""
          IN SelectSeq(compute_nodes, routable)
    /\ UNCHANGED <<original_nodes, original_edges, compute_capacities, source_node,
                   destination_node, flow_size, gamma, omega, cpeg, cne, mpcn,
                   request>>

RunCCN ==
    /\ pc = "CCN"
    /\ ccn' \in find_closest_compute_node(OriginalGraph, source_node,
                    destination_node, compute_nodes, compute_capacities,
                    flow_size, omega, gamma)
    /\ pc' = "MPCN"
    /\ UNCHANGED <<inputs, cpeg, cne, mpcn, request>>

RunMPCN ==
    /\ pc = "MPCN"
    /\ mpcn' \in find_max_capacity_compute_node(OriginalGraph, source_node,
                    destination_node, compute_nodes, compute_capacities,
                    flow_size, omega, gamma)
    /\ pc' = "done"
    /\ UNCHANGED <<inputs, cpeg, cne, ccn, request>>

Next == RunCPEG \/ RunCNE \/ RunCCN \/ RunMPCN

Spec == Init /\ [][Next]_vars

ExpansionSpec == ExpansionInit /\ [][Next]_vars

-----------------------------------------------------------------------------
(* network_parameters.py: the generator of random datasets.  Nodes are the *)
(* integers the generator draws; delays are in units of 1/Unit, which is   *)
(* what round(x, 2) keeps.  The 'loss' attribute no algorithm reads is     *)
(* left out.                                                               *)

\* requests: num_nodes in 2..MaxNumNodes, num_edges up to the
\* num_nodes*(num_nodes-1)/2 of the benchmarks for three nodes
MaxNumNodes == 4
MaxNumEdges == (MaxNumNodes + 2) \div 2
Requests ==
    {[num_nodes |-> n, num_edges |-> e] : n \in 2..MaxNumNodes, e \in 0..MaxNumEdges}

\* the loop body without the test for an edge already drawn
AcceptEdge_AllowsDuplicates(edges, source, dest) ==
    IF source # dest THEN Append(edges, <<source, dest>>) ELSE edges

\* generate_random_network, the body of one iteration:
\* if source != dest and (source, dest) not in edges: edges.append(...)
AcceptEdge(edges, source, dest) ==
    IF source # dest /\ <<source, dest>> \notin Range(edges)
    THEN Append(edges, <<source, dest>>)
    ELSE edges

\* list(set(...)) of small integers: ascending
RECURSIVE Ascending(_)
Ascending(S) ==
    IF S = {} THEN <<>> ELSE <<Min(S)>> \o Ascending(S \ {Min(S)})

\* random.sample(population, k): k distinct members in any order
Sample(population, k) ==
    {q \in [1..k -> population] : \A i, j \in 1..k : q[i] = q[j] => i = j}

\* int(total_nodes * 0.6)
NumSelected(total_nodes) == (total_nodes * 6) \div 10

\* the extremes of every random draw of generate_network_parameters
Draws == {"min", "max"}
DrawnAttrs(draw) ==
    IF draw = "min"
    THEN [bandwidth |-> 1000, propagation_delay |-> 1 * Unit,
          processing_delay |-> Unit \div 10, queuing_delay |-> 0, jitter |-> 0]
    ELSE [bandwidth |-> 5000, propagation_delay |-> 5 * Unit,
          processing_delay |-> Unit \div 2, queuing_delay |-> 5 * Unit,
          jitter |-> 2 * Unit]
DrawnFlow(draw) == IF draw = "min" THEN 100 ELSE 1000
DrawnCapacity(draw) == IF draw = "min" THEN 10000 ELSE 100000

\* generate_network_parameters(num_nodes, num_edges) is called
GenInit ==
    /\ request \in Requests
    /\ original_nodes = <<>> /\ original_edges = <<>>
    /\ compute_nodes = <<>> /\ compute_capacities = <<>>
    /\ source_node = 0 /\ destination_node = 0
    /\ flow_size = 0 /\ gamma = 0 /\ omega = 0
    /\ pc = "generate"
    /\ cpeg = Idle /\ cne = Idle /\ ccn = Idle /\ mpcn = Idle

\* one iteration of the while loop, drawing (source, dest); an iteration
\* whose draw is rejected runs and leaves every variable as it was
DrawEdge(source, dest) ==
    /\ pc = "generate"
    /\ Len(original_edges) < request.num_edges
    /\ source \in 1..(request.num_nodes - 1)
    /\ dest \in 1..(request.num_nodes - 1)
    /\ original_edges' = AcceptEdge(original_edges, source, dest)
    /\ UNCHANGED <<original_nodes, compute_nodes, compute_capacities, source_node,
                   destination_node, flow_size, gamma, omega, pc, cpeg, cne, ccn,
                   mpcn, request>>

\* the loop ends and generate_random_network returns its two lists
ReturnEdges ==
    /\ pc = "generate"
    /\ ~(Len(original_edges) < request.num_edges)
    /\ pc' = "parameters"
    /\ UNCHANGED <<original_nodes, original_edges, compute_nodes, compute_capacities,
                   source_node, destination_node, flow_size, gamma, omega, cpeg,
                   cne, ccn, mpcn, request>>

\* the rest of generate_network_parameters: the compute nodes, the
\* ValueError or the two endpoints, the attributes, and the YAML file
WriteParameters ==
    /\ pc = "parameters"
    /\ LET s == [i \in 1..Len(original_edges) |-> original_edges[i][1]]
           d == [i \in 1..Len(original_edges) |-> original_edges[i][2]]
           all_nodes == Ascending(Range(s \o d))
           num_selected_nodes == NumSelected(Len(all_nodes))
       IN \E selected \in Sample(Range(all_nodes), num_selected_nodes) :
            LET non_compute_nodes == Range(all_nodes) \ Range(selected)
            IN IF Cardinality(non_compute_nodes) < 2
               THEN /\ pc' = "raised"
                    /\ UNCHANGED <<original_nodes, original_edges, compute_nodes,
                                   compute_capacities, source_node, destination_node,
                                   flow_size, gamma, omega>>
               ELSE \E ends \in Sample(non_compute_nodes, 2), draw \in Draws :
                      /\ source_node' = ends[1]
                      /\ destination_node' = ends[2]
                      /\ flow_size' = DrawnFlow(draw)
                      /\ gamma' = 2
                      /\ omega' = 10
                      /\ original_nodes' = all_nodes
                      /\ compute_nodes' = selected
                      /\ original_edges' =
                            [i \in 1..Len(s) |->
                                [u |-> s[i], v |-> d[i], d |-> DrawnAttrs(draw)]]
                      /\ compute_capacities' =
                            [i \in 1..Len(selected) |->
                                <<selected[i], DrawnCapacity(draw)>>]
                      /\ pc' = "written"
    /\ UNCHANGED <<cpeg, cne, ccn, mpcn, request>>

GenNext ==
    \/ \E source, dest \in 1..(MaxNumNodes - 1) : DrawEdge(source, dest)
    \/ ReturnEdges
    \/ WriteParameters

GenSpec == GenInit /\ [][GenNext]_vars

\* random choice is fair: a pair that can be drawn is drawn in the end
FairGenSpec ==
    /\ GenSpec
    /\ \A source, dest \in 1..(MaxNumNodes - 1) : WF_vars(DrawEdge(source, dest))
    /\ WF_vars(ReturnEdges)
    /\ WF_vars(WriteParameters)

-----------------------------------------------------------------------------
(* Reference quantities of the delay model, computed on the edge list of   *)
(* the original network, for the properties below                          *)

PlainIds == \A i \in 1..Len(original_nodes) : "_" \notin Range(original_nodes[i])

ValidNetwork ==
    /\ source_node \notin Range(compute_nodes)
    /\ destination_node \notin Range(compute_nodes)
    /\ DictKeys(compute_capacities) = Range(compute_nodes)
    /\ \A i \in 1..Len(compute_capacities) : compute_capacities[i][2] > 0
    /\ \A i \in 1..Len(original_edges) : original_edges[i].d.bandwidth > 0

ForwardCostOf(e) ==
    e.d.propagation_delay + e.d.processing_delay + e.d.queuing_delay
    + e.d.jitter + (Unit * flow_size) \div e.d.bandwidth
ReturnCostOf(e) ==
    e.d.propagation_delay + e.d.processing_delay + e.d.queuing_delay
    + e.d.jitter + (Unit * gamma * flow_size) \div e.d.bandwidth
ComputeCost(c) == (Unit * omega * flow_size) \div DictItem(compute_capacities, c)

AllEdges == Range(original_edges)
ForwardCost == [e \in AllEdges |-> ForwardCostOf(e)]
ReturnCost == [e \in AllEdges |-> ReturnCostOf(e)]
\* edges a route towards the compute node may use in layer U
UpstreamEdges == {e \in AllEdges : e.v # destination_node}
\* edges a route from the compute node may use in layer D
DownstreamEdges == {e \in AllEdges : e.u # source_node /\ e.v # source_node}

\* the costs of the routes from u to t that use edges of E only and visit
\* no node twice (with non-negative costs a minimum-cost route is among them)
RECURSIVE RouteCosts(_, _, _, _, _)
RouteCosts(E, cost, u, t, seen) ==
    IF u = t THEN {0}
    ELSE UNION {{cost[e] + w : w \in RouteCosts(E, cost, e.v, t, seen \cup {e.v})} :
                e \in {x \in E : x.u = u /\ x.v \notin seen}}

\* total delays of the assignments (compute node, route to it, route from it)
Totals(Eup, Edown) ==
    UNION {{f + ComputeCost(c) + r :
              f \in RouteCosts(Eup, ForwardCost, source_node, c, {source_node}),
              r \in RouteCosts(Edown, ReturnCost, c, destination_node, {c})} :
           c \in Range(compute_nodes)}

Ran(result) == result.status # "idle"

-----------------------------------------------------------------------------
(* C1 *)

-----------------------------------------------------------------------------
(* C2 *)

Last(s) == s[Len(s)]

\* the returned path of a greedy result keeps destination out of the part
\* up to its compute node and source out of the part from it on
Layered(r) ==
    LET k == CHOOSE i \in 1..Len(r.path) : r.path[i] = r.node
    IN /\ \A i \in 1..k : r.path[i] # destination_node
       /\ \A i \in k..Len(r.path) : r.path[i] # source_node

-----------------------------------------------------------------------------
(* C3 *)

DestinationHasNoOutEdge == \A e \in AllEdges : e.u # destination_node

-----------------------------------------------------------------------------
(* C4 *)

\* C4 as stated: without compute nodes every strategy returns the no-path
\* result (None, +infinity, []).
C4_NoComputeNodesNoPath ==
    (pc = "done" /\ compute_nodes = <<>> /\ compute_capacities = <<>>)
        => /\ ccn = NoPathResult
           /\ mpcn = NoPathResult
           /\ cpeg = NoPathResult
           /\ cne = NoPathResult

-----------------------------------------------------------------------------
(* C5 *)

\* path starts at source, ends at destination, names original nodes only
\* and follows directed edges of the original network
OriginalWalk(path) ==
    /\ Head(path) = source_node
    /\ Last(path) = destination_node
    /\ \A i \in 1..Len(path) : path[i] \in Range(original_nodes)
    /\ \A i \in 1..(Len(path) - 1) :
          \E e \in AllEdges : e.u = path[i] /\ e.v = path[i+1]

\* C5 as stated: a non-empty path returned by any of the four strategies is
\* a walk of the original network from source to destination.
C5_PathsAreOriginalWalks ==
    (ValidNetwork /\ PlainIds)
        => \A r \in {ccn, mpcn, cpeg, cne} :
              (r.status = "ok" /\ r.path # <<>>) => OriginalWalk(r.path)

-----------------------------------------------------------------------------
(* C6 *)

\* the expanded graph of CPEG holds no path from source to destination_3
CPEG_NoPath ==
    LET X == CPEG_expand_network(original_nodes, original_edges, compute_nodes,
                                 compute_capacities, source_node, destination_node)
        G == WeightedGraph(X.E)
        t == Suffixed(destination_node, "3")
    IN \/ source_node \notin G.nodes
       \/ t \notin G.nodes
       \/ SimplePaths(G, source_node, t, {source_node}) = {}

\* C6 as stated: without a path in the expanded graph CPEG yields
\* (None, +infinity, []) and no error.
C6_NoPathIsAResult ==
    (Ran(cpeg) /\ ValidNetwork /\ CPEG_NoPath) => cpeg = NoPathResult

-----------------------------------------------------------------------------
(* C8 *)

Capacity(c) == DictItem(compute_capacities, c)
LargestCapacity ==
    CHOOSE x \in {Capacity(c) : c \in Range(compute_nodes)} :
        \A c \in Range(compute_nodes) : Capacity(c) <= x

\* position of node c in a list of nodes, and in the items of a dict
IndexIn(list, c) == CHOOSE i \in 1..Len(list) : list[i] = c
ItemIndex(dct, c) == CHOOSE i \in 1..Len(dct) : dct[i][1] = c

\* C8 as stated: MPCN selects a compute node of largest capacity, the first
\* such node in the order of compute_nodes.
C8_FirstLargestInComputeNodes ==
    (mpcn.status = "ok" /\ ValidNetwork)
        => /\ mpcn.node \in Range(compute_nodes)
           /\ Capacity(mpcn.node) = LargestCapacity
           /\ \A c \in Range(compute_nodes) :
                 Capacity(c) = LargestCapacity
                    => IndexIn(compute_nodes, mpcn.node) <= IndexIn(compute_nodes, c)

\* C8 amended: MPCN selects a compute node of largest capacity, the first
\* such node in the iteration order of the capacities mapping (the order of
\* compute_nodes when the capacities were given as a list).
C8_FirstLargestInCapacities ==
    (mpcn.status = "ok" /\ ValidNetwork)
        => /\ mpcn.node \in Range(compute_nodes)
           /\ Capacity(mpcn.node) = LargestCapacity
           /\ \A c \in Range(compute_nodes) :
                 Capacity(c) = LargestCapacity
                    => ItemIndex(compute_capacities, mpcn.node)
                          <= ItemIndex(compute_capacities, c)

\* two compute nodes of equal capacity, listed in one order and given their
\* capacities in the other: MPCN returned the second of compute_nodes
C8_Witness ==
    /\ mpcn.status = "ok" /\ ValidNetwork
    /\ Len(compute_nodes) = 2
    /\ Capacity(compute_nodes[1]) = Capacity(compute_nodes[2])
    /\ compute_capacities[1][1] = compute_nodes[2]
    /\ mpcn.node = compute_nodes[2]

-----------------------------------------------------------------------------
(* C9 *)

AnyCost == [e \in AllEdges |-> 0]
Reaches(u, t) == RouteCosts(AllEdges, AnyCost, u, t, {u}) # {}
\* c can be reached from source and reaches destination
Feasible(c) == Reaches(source_node, c) /\ Reaches(c, destination_node)

\* the node MPCN is bound to: largest capacity, first in the capacities
LargestCapacityNode ==
    CHOOSE c \in Range(compute_nodes) :
        /\ Capacity(c) = LargestCapacity
        /\ \A x \in Range(compute_nodes) :
              Capacity(x) = LargestCapacity
                 => ItemIndex(compute_capacities, c) <= ItemIndex(compute_capacities, x)

\* C9: when the largest-capacity node cannot be reached from source or does
\* not reach destination, MPCN returns (None, +infinity, []), whatever the
\* other compute nodes reach; when it returns a node, it is that node.
C9_NoFallback ==
    (Ran(mpcn) /\ ValidNetwork /\ compute_nodes # <<>>)
        => IF Feasible(LargestCapacityNode)
           THEN mpcn.status = "ok" /\ mpcn.node = LargestCapacityNode
           ELSE mpcn = NoPathResult

\* MPCN returned no path although another compute node is reachable and
\* reaches destination (CCN returned it)
C9_Witness ==
    /\ ValidNetwork /\ mpcn = NoPathResult /\ pc = "done"
    /\ ~Feasible(LargestCapacityNode)
    /\ \E c \in Range(compute_nodes) : Feasible(c)
    /\ ccn.status = "ok"

-----------------------------------------------------------------------------
(* C10 *)

\* C10: the total delay MPCN returns with node c is the least forward delay
\* of a route source -> c plus the least return delay of a route
\* c -> destination plus omega * flow_size / capacity[c].
C10_MPCNTotal ==
    (mpcn.status = "ok" /\ ValidNetwork)
        => mpcn.total_delay =
              Min(RouteCosts(AllEdges, ForwardCost, source_node, mpcn.node, {source_node}))
              + Min(RouteCosts(AllEdges, ReturnCost, mpcn.node, destination_node,
                               {mpcn.node}))
              + ComputeCost(mpcn.node)

\* MPCN succeeded where the routes to its node differ in forward delay and
\* the return delay is amplified
C10_Witness ==
    /\ mpcn.status = "ok" /\ ValidNetwork
    /\ gamma > 1
    /\ Cardinality(RouteCosts(AllEdges, ForwardCost, source_node, mpcn.node,
                              {source_node})) > 1

-----------------------------------------------------------------------------
(* C11 *)

PropagationCost == [e \in AllEdges |-> e.d.propagation_delay]
\* least cumulative propagation delay of a route from source to c
PropagationDistance(c) ==
    Min(RouteCosts(AllEdges, PropagationCost, source_node, c, {source_node}))
\* the compute nodes reachable from source that reach destination
Candidates == {c \in Range(compute_nodes) : Feasible(c)}

\* C11: when some compute node is reachable from source and reaches
\* destination, CCN selects one of these nodes, of least cumulative
\* propagation delay from source among them, and among those of equal
\* propagation delay the first in the order of compute_nodes.
C11_CCNSelectsNearestCandidate ==
    (Ran(ccn) /\ ValidNetwork /\ Candidates # {})
        => /\ ccn.status = "ok"
           /\ ccn.node \in Candidates
           /\ \A c \in Candidates :
                 /\ PropagationDistance(ccn.node) <= PropagationDistance(c)
                 /\ PropagationDistance(c) = PropagationDistance(ccn.node)
                       => IndexIn(compute_nodes, ccn.node) <= IndexIn(compute_nodes, c)

\* CCN passed over a nearer compute node that does not reach destination,
\* and took the first of two candidates at equal propagation delay
C11_Witness ==
    /\ ccn.status = "ok" /\ ValidNetwork
    /\ \/ \E c \in Range(compute_nodes) \ Candidates :
             /\ Reaches(source_node, c)
             /\ PropagationDistance(c) < PropagationDistance(ccn.node)
       \/ /\ Len(compute_nodes) = 2
          /\ Candidates = Range(compute_nodes)
          /\ PropagationDistance(compute_nodes[1]) = PropagationDistance(compute_nodes[2])
          /\ compute_nodes[1] # NodeA
          /\ ccn.node = compute_nodes[1]

-----------------------------------------------------------------------------
(* C12 *)

EdgeOf(u, v) == CHOOSE e \in AllEdges : e.u = u /\ e.v = v

\* the delay a result adds for the part of its path from its compute node
\* to destination: every edge of that part at its return delay
ReturnSegmentDelay(r) ==
    LET k == CHOOSE i \in 1..Len(r.path) : r.path[i] = r.node
    IN SumSeq([i \in 1..(Len(r.path) - k) |->
                  ReturnCost[EdgeOf(r.path[k + i - 1], r.path[k + i])]])

LeastReturnDelay(c) ==
    Min(RouteCosts(AllEdges, ReturnCost, c, destination_node, {c}))

\* C12 as stated: the part of the CCN path from the selected node to
\* destination has the least full return delay (propagation + processing +
\* queuing + jitter + gamma * flow_size / bandwidth per edge) of all routes
\* from that node to destination.
C12_CCNReturnIsMinimal ==
    (ccn.status = "ok" /\ ValidNetwork)
        => ReturnSegmentDelay(ccn) = LeastReturnDelay(ccn.node)

-----------------------------------------------------------------------------
(* C13 *)

\* C13: CCN returns (None, +infinity, []) exactly when no compute node is
\* both reachable from source and able to reach destination; otherwise it
\* returns a compute node, a total delay and a non-empty path.
C13_CCNNoPathExactly ==
    (Ran(ccn) /\ ValidNetwork)
        => /\ ccn = NoPathResult <=> Candidates = {}
           /\ Candidates # {}
                => /\ ccn.status = "ok"
                   /\ ccn.node \in Range(compute_nodes)
                   /\ ccn.total_delay >= 0
                   /\ ccn.path # <<>>

\* CCN returned no path although compute nodes exist and one of them can
\* be reached from source
C13_Witness ==
    /\ ccn = NoPathResult /\ ValidNetwork
    /\ \E c \in Range(compute_nodes) : Reaches(source_node, c)
    /\ \E c \in Range(compute_nodes) : Reaches(c, destination_node)

-----------------------------------------------------------------------------
(* C14 *)

\* the capacities give c no capacity, or one that is not positive
InvalidCapacity(c) ==
    \/ c \notin DictKeys(compute_capacities)
    \/ DictItem(compute_capacities, c) <= 0

\* the node CCN evaluates the compute delay of
NearestCandidate ==
    CHOOSE c \in Candidates :
        \A x \in Candidates :
            /\ PropagationDistance(c) <= PropagationDistance(x)
            /\ PropagationDistance(x) = PropagationDistance(c)
                  => IndexIn(compute_nodes, c) <= IndexIn(compute_nodes, x)

\* C14 as stated: a strategy that evaluates the compute delay of a compute
\* node whose capacity is missing or not positive ends with an error raised
\* to its caller (any exception is accepted here as that error); it
\* returns no delay computed with such a capacity or with a default.
C14_InvalidCapacityRaises ==
    /\ (Ran(ccn) /\ Candidates # {} /\ InvalidCapacity(NearestCandidate))
          => ccn.status = "error"
    /\ (Ran(mpcn) /\ compute_capacities # <<>>
           /\ Feasible(MaxCapacityNode(compute_capacities))
           /\ InvalidCapacity(MaxCapacityNode(compute_capacities)))
          => mpcn.status = "error"
    /\ (Ran(cpeg) /\ \E c \in Range(compute_nodes) : InvalidCapacity(c))
          => cpeg.status = "error"

-----------------------------------------------------------------------------
(* C15 *)

InScenario ==
    /\ original_nodes = <<ScenarioA, ScenarioB, ScenarioC, ScenarioD>>
    /\ source_node = ScenarioA
    /\ destination_node = ScenarioD

-----------------------------------------------------------------------------
(* C16 *)

\* C16: no strategy changes its input: across every run of a strategy the
\* node list, the edge list with every attribute dictionary, compute_nodes,
\* the capacities and the flow parameters (and so the graph G built from
\* them) stay what they were.
C16_InputsUnchanged == [][inputs' = inputs]_vars

\* the four strategies have run on a network with edges and compute nodes,
\* one of which CCN could not route
C16_Witness ==
    /\ pc = "done"
    /\ original_edges # <<>>
    /\ Len(compute_nodes) = 2
    /\ Candidates # {} /\ Candidates # Range(compute_nodes)
    /\ cpeg.status = "ok" /\ cne.status = "ok"
    /\ ccn.status = "ok" /\ mpcn.status = "ok"

-----------------------------------------------------------------------------
(* C17 *)

\* C17 as stated: on a valid input every edge of the expanded graph handed
\* to the search has a weight >= 0, and the weights are checked when the
\* graph is built: a graph that holds a negative weight fails the build
\* with an assertion error and reaches no search.
C17_WeightsCheckedAtBuild ==
    LET X == CPEG_expand_network(original_nodes, original_edges, compute_nodes,
                                 compute_capacities, source_node, destination_node)
        built == /\ X.exc = ""
                 /\ \A i \in 1..Len(X.E) :
                       ~d_uv_ZeroDivision(X.E[i].u, X.E[i].v, X.E[i].layer, X.E[i].d)
        W == WeightAttr(WeightedGraph(X.E))
    IN (Ran(cpeg) /\ built)
          => /\ ValidNetwork => ~NegativeWeight(W)
             /\ NegativeWeight(W) => cpeg = Raised("AssertionError")

-----------------------------------------------------------------------------
(* C18 *)

\* the graph the CPEG script hands to its search
CPEG_Graph ==
    WeightedGraph(CPEG_expand_network(original_nodes, original_edges, compute_nodes,
                      compute_capacities, source_node, destination_node).E)

InLayerU(e) == e.v # destination_node
InLayerD(e) == e.u # source_node /\ e.v # source_node

\* C18: in the CPEG expanded graph the layer-U copy of an original edge
\* weighs propagation + processing + queuing + jitter + flow_size/bandwidth
\* of that edge, its layer-D copy weighs propagation + processing + queuing
\* + jitter + gamma*flow_size/bandwidth, and the two weights of one edge
\* differ by (gamma - 1)*flow_size/bandwidth.
C18_LayerWeights ==
    (Ran(cpeg) /\ ValidNetwork)
        => LET G == CPEG_Graph IN
           \A e \in AllEdges :
              LET up == <<e.u, e.v>>
                  down == <<Suffixed(e.u, "3"), Suffixed(e.v, "3")>>
              IN /\ InLayerU(e)
                    => /\ up \in DOMAIN G.adj
                       /\ G.adj[up].layer = "C-UCL"
                       /\ G.adj[up].weight
                            = e.d.propagation_delay + e.d.processing_delay
                              + e.d.queuing_delay + e.d.jitter
                              + (Unit * flow_size) \div e.d.bandwidth
                 /\ InLayerD(e)
                    => /\ down \in DOMAIN G.adj
                       /\ G.adj[down].layer = "C-DCL"
                       /\ G.adj[down].weight
                            = e.d.propagation_delay + e.d.processing_delay
                              + e.d.queuing_delay + e.d.jitter
                              + (Unit * gamma * flow_size) \div e.d.bandwidth
                 /\ (InLayerU(e) /\ InLayerD(e))
                    => G.adj[down].weight - G.adj[up].weight
                         = (Unit * (gamma - 1) * flow_size) \div e.d.bandwidth

\* CPEG ran with an amplified return on a network with an edge copied into
\* both layers, and with an edge that carries jitter in each layer
C18_Witness ==
    /\ Ran(cpeg) /\ ValidNetwork /\ gamma > 1
    /\ \E e \in AllEdges :
          /\ InLayerU(e) /\ InLayerD(e)
          /\ CPEG_Graph.adj[<<e.u, e.v>>].weight
                < CPEG_Graph.adj[<<Suffixed(e.u, "3"), Suffixed(e.v, "3")>>].weight
    /\ \E e \in AllEdges : InLayerU(e) /\ e.d.jitter > 0
    /\ \E e \in AllEdges : InLayerD(e) /\ e.d.jitter > 0

-----------------------------------------------------------------------------
(* C19 *)

\* C19 as stated: for every compute node c, whatever its identifier, the
\* CPEG edge c -> c_2 weighs omega*flow_size/capacities[c] and the edge
\* c_2 -> c_3 weighs 0; a capacity equal to flow_size*omega gives the
\* compute edge the weight 1.
C19_ComputeEdgeWeights ==
    (Ran(cpeg) /\ ValidNetwork)
        => LET G == CPEG_Graph IN
           \A c \in Range(compute_nodes) :
              LET enter == <<c, Suffixed(c, "2")>>
                  link == <<Suffixed(c, "2"), Suffixed(c, "3")>>
              IN /\ enter \in DOMAIN G.adj /\ link \in DOMAIN G.adj
                 /\ G.adj[enter].weight = ComputeCost(c)
                 /\ G.adj[link].weight = 0
                 /\ Capacity(c) = flow_size * omega => G.adj[enter].weight = Unit

-----------------------------------------------------------------------------
(* C20 *)

\* what CPEG.expand_network returns for the network
CPEG_Expansion ==
    CPEG_expand_network(original_nodes, original_edges, compute_nodes,
                        compute_capacities, source_node, destination_node)

\* the edges of expansion X that carry the tag layer
TaggedEdges(X, layer) == {i \in 1..Len(X.E) : X.E[i].layer = layer}

\* C20: expand_network returns, tagged 'C-UCL', one edge (u, v) for each
\* original edge with v # destination and nothing else; tagged 'C-DCL', one
\* edge (u_3, v_3) for each original edge with u # source and v # source
\* and nothing else; and one layer-D node n_3 for each original node n
\* except source.
C20_LayerEdges ==
    LET X == CPEG_Expansion
        U == TaggedEdges(X, "C-UCL")
        D == TaggedEdges(X, "C-DCL")
        V_C_DCL == SubSeq(X.V, Len(original_nodes) + Len(compute_nodes) + 1, Len(X.V))
    IN (Ran(cpeg) /\ X.exc = "")
          => /\ {<<X.E[i].u, X.E[i].v, X.E[i].d>> : i \in U}
                  = {<<e.u, e.v, AsDict(e.d)>> : e \in {x \in AllEdges : InLayerU(x)}}
             /\ Cardinality(U)
                  = Cardinality({j \in 1..Len(original_edges) :
                                    InLayerU(original_edges[j])})
             /\ {<<X.E[i].u, X.E[i].v, X.E[i].d>> : i \in D}
                  = {<<Suffixed(e.u, "3"), Suffixed(e.v, "3"), AsDict(e.d)>> :
                        e \in {x \in AllEdges : InLayerD(x)}}
             /\ Cardinality(D)
                  = Cardinality({j \in 1..Len(original_edges) :
                                    InLayerD(original_edges[j])})
             /\ Range(V_C_DCL)
                  = {Suffixed(n, "3") : n \in Range(original_nodes) \ {source_node}}
             /\ Len(V_C_DCL) = Len(original_nodes) - 1

\* the network expanded has an edge into destination, an edge at source
\* and an edge that both layers copy
C20_Witness ==
    /\ Ran(cpeg) /\ CPEG_Expansion.exc = ""
    /\ \E e \in AllEdges : ~InLayerU(e) /\ InLayerD(e)
    /\ \E e \in AllEdges : InLayerU(e) /\ ~InLayerD(e)
    /\ \E e \in AllEdges : InLayerU(e) /\ InLayerD(e)
    /\ TaggedEdges(CPEG_Expansion, "C-UCL") # {}
    /\ TaggedEdges(CPEG_Expansion, "C-DCL") # {}

-----------------------------------------------------------------------------
(* C21 *)

\* the paths of the CPEG expanded graph from source to destination_3
CPEG_Paths ==
    LET G == CPEG_Graph
        t == Suffixed(destination_node, "3")
    IN IF source_node \in G.nodes /\ t \in G.nodes
       THEN SimplePaths(G, source_node, t, {source_node})
       ELSE {}

\* the positions at which path takes an edge of the given layer
Hops(G, path, layer) ==
    {i \in 1..(Len(path) - 1) : G.adj[<<path[i], path[i+1]>>].layer = layer}

\* C21 as stated: every path of the CPEG expanded graph from source to
\* destination_3 takes exactly one edge c -> c_2 and then c_2 -> c_3, c a
\* compute node; before c_2 it takes layer-U edges only and after c_3
\* layer-D edges only, so it identifies one compute node.
C21_OneComputeNodePerPath ==
    (Ran(cpeg) /\ ValidNetwork)
        => LET G == CPEG_Graph IN
           \A p \in CPEG_Paths :
              /\ Cardinality(Hops(G, p, "UCL-CL")) = 1
              /\ Cardinality(Hops(G, p, "CL-DCL")) = 1
              /\ \E k \in 1..(Len(p) - 2) :
                    /\ p[k] \in Range(compute_nodes)
                    /\ p[k+1] = Suffixed(p[k], "2")
                    /\ p[k+2] = Suffixed(p[k], "3")
                    /\ Hops(G, p, "C-UCL") = 1..(k - 1)
                    /\ Hops(G, p, "C-DCL") = (k + 2)..(Len(p) - 1)

-----------------------------------------------------------------------------
(* C22 *)

\* the part of a result's path from source up to its compute node
ForwardSegment(r) ==
    SubSeq(r.path, 1, CHOOSE i \in 1..Len(r.path) : r.path[i] = r.node)

\* the sum of cost over the edges of a path of the original network
SegmentCost(cost, path) ==
    SumSeq([i \in 1..(Len(path) - 1) |-> cost[EdgeOf(path[i], path[i+1])]])

LeastForwardDelay(c) ==
    Min(RouteCosts(AllEdges, ForwardCost, source_node, c, {source_node}))

\* C22: the path CCN returns reaches its node by a route of least
\* propagation delay, and the total delay is the sum of the five forward
\* terms along that route, plus the return delay along the rest of the
\* path, plus omega * flow_size / capacity[node].
C22_CCNForwardNotReoptimized ==
    (ccn.status = "ok" /\ ValidNetwork)
        => /\ SegmentCost(PropagationCost, ForwardSegment(ccn))
                = PropagationDistance(ccn.node)
           /\ ccn.total_delay
                = SegmentCost(ForwardCost, ForwardSegment(ccn))
                  + ReturnSegmentDelay(ccn)
                  + ComputeCost(ccn.node)

\* CCN kept a route to its node although another route to that node has a
\* smaller full forward delay
C22_Witness ==
    /\ ccn.status = "ok" /\ ValidNetwork
    /\ LeastForwardDelay(ccn.node) < SegmentCost(ForwardCost, ForwardSegment(ccn))
    /\ ccn.total_delay
          > LeastForwardDelay(ccn.node) + ReturnSegmentDelay(ccn) + ComputeCost(ccn.node)

-----------------------------------------------------------------------------
(* C23 *)

\* what CNE.expand_network returns for the network
CNE_Expansion ==
    CNE_expand_network(original_nodes, original_edges, compute_nodes,
                       compute_capacities, source_node, destination_node)

\* the nodes replica i copies, and the edges it copies
ReplicaNodes(i) ==
    {Suffixed(n, Digit(i)) : n \in Range(original_nodes) \ {source_node}}
ReplicaEdges(i) ==
    {<<Suffixed(e.u, Digit(i)), Suffixed(e.v, Digit(i)), AsDict(e.d)>> :
        e \in {x \in AllEdges : InLayerD(x)}}

\* C23: CNE.expand_network with k compute nodes returns every original
\* edge unchanged (tagged 'original'), edges into destination included;
\* for each i in 1..k the copy n_i of every original node except source
\* and the copy (u_i, v_i) of every original edge with neither endpoint
\* source (tagged 'copied'); one super-destination node; and one aggregate
\* edge destination_i -> super-destination of weight 0 for each i in 1..k.
C23_ReplicaStructure ==
    LET X == CNE_Expansion
        k == Len(compute_nodes)
        n == Len(original_nodes)
        original == TaggedEdges(X, "original")
        copied == TaggedEdges(X, "copied")
        aggregate == TaggedEdges(X, "aggregate")
    IN (Ran(cne) /\ X.exc = "")
          => /\ original = 1..Len(original_edges)
             /\ \A i \in original :
                   /\ X.E[i].u = original_edges[i].u
                   /\ X.E[i].v = original_edges[i].v
                   /\ X.E[i].d = AsDict(original_edges[i].d)
             /\ SubSeq(X.V, 1, n) = original_nodes
             /\ \A i \in 1..k :
                   /\ Range(SubSeq(X.V, n + (i - 1) * (n - 1) + 1, n + i * (n - 1)))
                        = ReplicaNodes(i)
                   /\ ReplicaEdges(i)
                        \subseteq {<<X.E[j].u, X.E[j].v, X.E[j].d>> : j \in copied}
             /\ {<<X.E[j].u, X.E[j].v, X.E[j].d>> : j \in copied}
                  = UNION {ReplicaEdges(i) : i \in 1..k}
             /\ Cardinality(copied)
                  = k * Cardinality({j \in 1..Len(original_edges) :
                                        InLayerD(original_edges[j])})
             /\ Len(X.V) = n + k * (n - 1) + 1
             /\ X.V[Len(X.V)] = X.super_dest
             /\ X.super_dest \notin Range(SubSeq(X.V, 1, Len(X.V) - 1))
             /\ Cardinality(aggregate) = k
             /\ {<<X.E[j].u, X.E[j].v, X.E[j].d>> : j \in aggregate}
                  = {<<Suffixed(destination_node, Digit(i)), X.super_dest, AsNumber(0)>> :
                        i \in 1..k}

\* CNE expanded a network with two compute nodes, an edge into destination,
\* an edge at source and an edge the replicas copy
C23_Witness ==
    /\ Ran(cne) /\ CNE_Expansion.exc = ""
    /\ Len(compute_nodes) = 2
    /\ \E e \in AllEdges : e.v = destination_node
    /\ \E e \in AllEdges : ~InLayerD(e)
    /\ Cardinality(TaggedEdges(CNE_Expansion, "copied")) >= 4

-----------------------------------------------------------------------------
(* C24 *)

\* the graph the CNE search runs on
CNE_Graph == CNE_WeightedGraph(CNE_Expansion.E)

\* the entries of the returned edge list that enter replica i from a node
\* that is not in it
EntersReplica(X, i) ==
    {j \in 1..Len(X.E) : /\ X.E[j].v \in ReplicaNodes(i)
                          /\ X.E[j].u \notin ReplicaNodes(i)}

CNE_Paths ==
    LET G == CNE_Graph
        t == CNE_Expansion.super_dest
    IN IF source_node \in G.nodes /\ t \in G.nodes
       THEN SimplePaths(G, source_node, t, {source_node})
       ELSE {}

\* C24: in the CNE expanded graph the i-th compute node has exactly one
\* compute edge, from its original-layer node to its copy in replica i; it
\* is the only edge entering replica i from outside; and every path from
\* source to the super-destination crosses exactly one compute edge.
C24_OneComputeEdgePerReplica ==
    LET X == CNE_Expansion
        G == CNE_Graph
    IN (Ran(cne) /\ ValidNetwork)
          => /\ \A i \in 1..Len(compute_nodes) :
                   /\ \E j \in TaggedEdges(X, "compute") :
                         /\ X.E[j].u = compute_nodes[i]
                         /\ X.E[j].v = Suffixed(compute_nodes[i], Digit(i))
                         /\ EntersReplica(X, i) = {j}
                         /\ \A h \in TaggedEdges(X, "compute") :
                               X.E[h].u = compute_nodes[i] => h = j
             /\ \A p \in CNE_Paths :
                   Cardinality(Hops(G, p, "compute")) = 1

-----------------------------------------------------------------------------
(* C25 *)

\* how many entries of the original edge list satisfy the layer tests
NumInLayerU == Cardinality({j \in 1..Len(original_edges) : InLayerU(original_edges[j])})
NumInLayerD == Cardinality({j \in 1..Len(original_edges) : InLayerD(original_edges[j])})

\* C25: for a network with node list V (source in V), edge list E and k
\* compute nodes, CPEG.expand_network returns exactly 2|V| - 1 + k nodes and
\* |{e : e.to # destination}| + |{e : neither endpoint is source}| + 2k
\* edges; CNE.expand_network returns exactly |V| + k(|V| - 1) + 1 nodes and
\* |E| + k * |{e : neither endpoint is source}| + 2k edges.
C25_ExpansionSizes ==
    LET P == CPEG_Expansion
        N == CNE_Expansion
        k == Len(compute_nodes)
        n == Len(original_nodes)
    IN (Ran(cne) /\ source_node \in Range(original_nodes))
          => /\ P.exc = ""
                  => /\ Len(P.V) = 2 * n - 1 + k
                     /\ Len(P.E) = NumInLayerU + NumInLayerD + 2 * k
             /\ N.exc = ""
                  => /\ Len(N.V) = n + k * (n - 1) + 1
                     /\ Len(N.E) = Len(original_edges) + k * NumInLayerD + 2 * k

\* both expansions were built for a network with two compute nodes whose
\* edges the layers and replicas copy in different numbers
C25_Witness ==
    /\ Ran(cne) /\ source_node \in Range(original_nodes)
    /\ CPEG_Expansion.exc = "" /\ CNE_Expansion.exc = ""
    /\ Len(compute_nodes) = 2
    /\ NumInLayerU > NumInLayerD /\ NumInLayerD > 0
    /\ Len(CNE_Expansion.E) > Len(CPEG_Expansion.E)

-----------------------------------------------------------------------------
(* C29 *)

NoDuplicates(seq) == Cardinality(Range(seq)) = Len(seq)

\* C29: for every network whose node identifiers are unique strings, the
\* node list CPEG.expand_network returns has no duplicates (its layers
\* U, compute and D are pairwise disjoint), and so has the node list
\* CNE.expand_network returns (original layer, replicas and
\* super-destination are pairwise disjoint).
C29_LayersDisjoint ==
    (Ran(cne) /\ ValidNetwork /\ NoDuplicates(original_nodes))
        => /\ CPEG_Expansion.exc = "" => NoDuplicates(CPEG_Expansion.V)
           /\ CNE_Expansion.exc = "" => NoDuplicates(CNE_Expansion.V)

-----------------------------------------------------------------------------
(* C28 *)

HasEdge(u, v) == \E e \in AllEdges : e.u = u /\ e.v = v

\* path p of the expanded graph, with its compute node at position k, read
\* as a walk source -> p[k] -> destination of the original network: the
\* hops before k are original edges, the hops after k + 2 are original
\* edges with "_3" appended to both ends, and the weight of p is the
\* forward delay of the first, the compute delay at p[k] and the return
\* delay of the second
MapsToWalk(G, p, k) ==
    LET down == [j \in 1..(Len(p) - k - 1) |-> Unsuffixed(p[k + 1 + j])]
    IN /\ p[k] \in Range(compute_nodes)
       /\ p[k+1] = Suffixed(p[k], "2")
       /\ p[k+2] = Suffixed(p[k], "3")
       /\ \A i \in 1..(k - 1) : HasEdge(p[i], p[i+1])
       /\ \A i \in (k + 2)..Len(p) : p[i] = Suffixed(down[i - k - 1], "3")
       /\ \A j \in 1..(Len(down) - 1) : HasEdge(down[j], down[j+1])
       /\ down[1] = p[k] /\ down[Len(down)] = destination_node
       /\ (\A i \in 1..(k - 1) : HasEdge(p[i], p[i+1]))
             /\ (\A j \in 1..(Len(down) - 1) : HasEdge(down[j], down[j+1]))
          => PathWeight(WeightAttr(G), p)
               = SegmentCost(ForwardCost, SubSeq(p, 1, k))
                 + ComputeCost(p[k])
                 + SegmentCost(ReturnCost, down)

\* C28: every path from source to destination + "_3" in the CPEG expanded
\* graph maps, by stripping the suffixes and dropping the two compute-link
\* hops, to a walk source -> c -> destination of the original network
\* whose forward delay up to c, plus omega * flow_size / capacity[c], plus
\* return delay after c, equals the path's weight; so the delay CPEG
\* returns is never below the minimum over all compute nodes and routes.
C28_CPEGSound ==
    (Ran(cpeg) /\ ValidNetwork)
        => LET G == CPEG_Graph IN
           /\ \A p \in CPEG_Paths : \E k \in 1..(Len(p) - 2) : MapsToWalk(G, p, k)
           /\ cpeg.status = "ok"
                => /\ Totals(AllEdges, AllEdges) # {}
                   /\ cpeg.total_delay >= Min(Totals(AllEdges, AllEdges))

-----------------------------------------------------------------------------
(* C30 *)

\* where the result's compute node first occurs on its path
NodeIndex(r) == CHOOSE i \in 1..Len(r.path) :
                    /\ r.path[i] = r.node
                    /\ \A j \in 1..(i - 1) : r.path[j] # r.node

-----------------------------------------------------------------------------
(* C26 *)

\* the (source, destination) pairs of the dataset's edges
EdgePairs == [i \in 1..Len(original_edges) |-> <<original_edges[i].u, original_edges[i].v>>]

\* C26: every dataset generate_network_parameters writes has no two edges
\* with the same (source, destination) pair and no self-loop; every edge
\* endpoint is in nodes; compute_nodes is a subset of nodes; source_node #
\* destination_node and neither is a compute node; compute_node_capacity
\* has one positive entry per compute node.  When fewer than two
\* non-compute nodes exist it raises ValueError and writes no dataset.
C26_GeneratedDatasetValid ==
    /\ pc = "written"
         => /\ NoDuplicates(EdgePairs)
            /\ \A i \in 1..Len(original_edges) :
                  /\ original_edges[i].u # original_edges[i].v
                  /\ original_edges[i].u \in Range(original_nodes)
                  /\ original_edges[i].v \in Range(original_nodes)
            /\ Range(compute_nodes) \subseteq Range(original_nodes)
            /\ source_node # destination_node
            /\ source_node \in Range(original_nodes) \ Range(compute_nodes)
            /\ destination_node \in Range(original_nodes) \ Range(compute_nodes)
            /\ Len(compute_capacities) = Len(compute_nodes)
            /\ \A i \in 1..Len(compute_nodes) :
                  /\ compute_capacities[i][1] = compute_nodes[i]
                  /\ compute_capacities[i][2] > 0
            /\ Cardinality(Range(original_nodes) \ Range(compute_nodes)) >= 2
    /\ pc = "raised"
         => /\ original_nodes = <<>> /\ compute_nodes = <<>>
            /\ LET drawn == UNION {{original_edges[i][1], original_edges[i][2]} :
                                      i \in 1..Len(original_edges)}
               IN \A c \in SUBSET drawn :
                     Cardinality(c) = NumSelected(Cardinality(drawn))
                        => Cardinality(drawn \ c) < 2

\* a dataset with three nodes, one of them a compute node, was written
\* after a draw was rejected
C26_Witness ==
    /\ pc = "written"
    /\ Len(original_nodes) = 3 /\ Len(compute_nodes) = 1
    /\ Len(original_edges) = MaxNumEdges

-----------------------------------------------------------------------------
(* C27 *)

\* C27: generate_random_network(num_nodes, num_edges) eventually
\* terminates under fair random choice and returns exactly num_edges
\* distinct directed edges, for every num_nodes >= 2 and num_edges >= 0,
\* including num_edges up to num_nodes * (num_nodes - 1) / 2.
C27_GeneratorTerminates ==
    <>(/\ pc = "parameters"
       /\ Len(original_edges) = request.num_edges
       /\ NoDuplicates(original_edges))

====
